---------------------------- MODULE Spec2Model ----------------------------
(***************************************************************************)
(* Model of Lab1.py: a seven-stage OSI-style pipeline over a mocked        *)
(* transmission medium (one FIFO queue).                                   *)
(*                                                                         *)
(* Text is a sequence of Unicode code points, bytes are sequences of       *)
(* 0..255.  S("...") turns a literal into text.                            *)
(***************************************************************************)
EXTENDS Integers, Sequences, FiniteSets, TLC

(***************************************************************************)
(* Bounds                                                                  *)
(***************************************************************************)
\* most payloads the medium holds at once in the explored runs
MaxQueue == 2

(***************************************************************************)
(* Text                                                                    *)
(***************************************************************************)
\* code points 32..95 and 97..126, in order (96 has no literal form here)
AsciiLow == " !\"#$%&'()*+,-./0123456789:;<=>?@ABCDEFGHIJKLMNOPQRSTUVWXYZ[\\]^_"
AsciiHigh == "abcdefghijklmnopqrstuvwxyz{|}~"

Ord(c) ==
    IF c = "\n" THEN 10
    ELSE IF \E i \in 1..Len(AsciiLow) : SubSeq(AsciiLow, i, i) = c
         THEN 31 + (CHOOSE i \in 1..Len(AsciiLow) : SubSeq(AsciiLow, i, i) = c)
         ELSE 96 + (CHOOSE i \in 1..Len(AsciiHigh) : SubSeq(AsciiHigh, i, i) = c)

S(str) == [i \in 1..Len(str) |-> Ord(SubSeq(str, i, i))]

Pipe == Ord("|")

\* evaluates v once and hands its value to Body
Bind(v, Body(_)) == CHOOSE y \in {Body(x) : x \in {v}} : TRUE

\* concatenation of a sequence of sequences (halving keeps the recursion shallow)
RECURSIVE Flatten(_)
Flatten(ss0) ==
    Bind(ss0 \o <<>>, LAMBDA ss :
        IF Len(ss) = 0 THEN <<>>
        ELSE IF Len(ss) = 1 THEN ss[1]
        ELSE LET h == Len(ss) \div 2
             IN  Flatten(SubSeq(ss, 1, h)) \o Flatten(SubSeq(ss, h + 1, Len(ss))))

Reverse(s) == [i \in 1..Len(s) |-> s[Len(s) + 1 - i]]

\* `sub in data`
Contains(data, ch) == \E i \in 1..Len(data) : data[i] = ch

FirstIndex(data, ch) == CHOOSE i \in 1..Len(data) : data[i] = ch /\ \A j \in 1..(i - 1) : data[j] # ch

\* data.split("|", 1)[0] and data.split("|", 1)[1], for data containing "|"
SplitHead(data) == SubSeq(data, 1, FirstIndex(data, Pipe) - 1)
SplitRest(data) == SubSeq(data, FirstIndex(data, Pipe) + 1, Len(data))

\* data.startswith(prefix)
StartsWith(data, prefix) ==
    /\ Len(data) >= Len(prefix)
    /\ SubSeq(data, 1, Len(prefix)) = prefix

(***************************************************************************)
(* Outcomes of a call: a returned text, None, or a raised exception        *)
(***************************************************************************)
Text(t) == [kind |-> "text", val |-> t]
None == [kind |-> "None", val |-> <<>>]
\* the exception is kept by its class name
Raise(exc) == [kind |-> "raise", val |-> exc]

(***************************************************************************)
(* str.encode() / bytes.decode(): UTF-8                                    *)
(***************************************************************************)
Utf8Char(cp) ==
    IF cp < 128 THEN <<cp>>
    ELSE IF cp < 2048 THEN <<192 + (cp \div 64), 128 + (cp % 64)>>
    ELSE IF cp < 65536 THEN <<224 + (cp \div 4096), 128 + ((cp \div 64) % 64), 128 + (cp % 64)>>
    ELSE <<240 + (cp \div 262144), 128 + ((cp \div 4096) % 64),
           128 + ((cp \div 64) % 64), 128 + (cp % 64)>>

IsSurrogate(cp) == cp >= 55296 /\ cp <= 57343

\* data.encode(): lone surrogates cannot be encoded
StrEncode(data) ==
    IF \A i \in 1..Len(data) : data[i] < 128
    THEN [kind |-> "bytes", val |-> data]  \* ASCII text is its own encoding
    ELSE IF \E i \in 1..Len(data) : IsSurrogate(data[i])
    THEN Raise("UnicodeEncodeError")
    ELSE [kind |-> "bytes", val |-> Flatten([i \in 1..Len(data) |-> Utf8Char(data[i])])]

IsCont(b) == b >= 128 /\ b <= 191

\* length of the well-formed UTF-8 sequence at the head of bs, 0 when ill-formed
Utf8Len(bs) ==
    LET b1 == bs[1]
        n  == Len(bs)
    IN  IF b1 < 128 THEN 1
        ELSE IF b1 >= 194 /\ b1 <= 223
             THEN IF n >= 2 /\ IsCont(bs[2]) THEN 2 ELSE 0
        ELSE IF b1 >= 224 /\ b1 <= 239
             THEN IF /\ n >= 3
                     /\ IsCont(bs[2]) /\ IsCont(bs[3])
                     /\ (b1 = 224 => bs[2] >= 160)
                     /\ (b1 = 237 => bs[2] <= 159)
                  THEN 3 ELSE 0
        ELSE IF b1 >= 240 /\ b1 <= 244
             THEN IF /\ n >= 4
                     /\ IsCont(bs[2]) /\ IsCont(bs[3]) /\ IsCont(bs[4])
                     /\ (b1 = 240 => bs[2] >= 144)
                     /\ (b1 = 244 => bs[2] <= 143)
                  THEN 4 ELSE 0
        ELSE 0

Utf8CodePoint(bs) ==
    IF Len(bs) = 1 THEN bs[1]
    ELSE IF Len(bs) = 2 THEN (bs[1] - 192) * 64 + (bs[2] - 128)
    ELSE IF Len(bs) = 3 THEN (bs[1] - 224) * 4096 + (bs[2] - 128) * 64 + (bs[3] - 128)
    ELSE (bs[1] - 240) * 262144 + (bs[2] - 128) * 4096 + (bs[3] - 128) * 64 + (bs[4] - 128)

\* the bytes cut before every byte that is not a continuation byte: the text
\* is well formed exactly when each piece is one whole encoded character
Utf8Pieces(bs) ==
    Bind(SelectSeq([i \in 1..Len(bs) |-> i], LAMBDA i : i = 1 \/ ~IsCont(bs[i])),
         LAMBDA starts :
             [k \in 1..Len(starts) |->
                 SubSeq(bs, starts[k],
                        IF k = Len(starts) THEN Len(bs) ELSE starts[k + 1] - 1)] \o <<>>)

\* bytes.decode()
BytesDecode(bs) ==
    Bind(Utf8Pieces(bs), LAMBDA pieces :
        IF \A k \in 1..Len(pieces) : Utf8Len(pieces[k]) = Len(pieces[k])
        THEN Text([k \in 1..Len(pieces) |-> Utf8CodePoint(pieces[k])] \o <<>>)
        ELSE Raise("UnicodeDecodeError"))

(***************************************************************************)
(* base64                                                                  *)
(***************************************************************************)
B64Alphabet == S("ABCDEFGHIJKLMNOPQRSTUVWXYZabcdefghijklmnopqrstuvwxyz0123456789+/")
B64Pad == Ord("=")

B64Char(v) == B64Alphabet[v + 1]

\* byte i of bs, 0 past the end
ByteAt(bs, i) == IF i <= Len(bs) THEN bs[i] ELSE 0

\* base64.b64encode(bytes), as ASCII text: each group of three bytes gives
\* four characters, a short last group is padded with "="
B64Encode(bs) ==
    LET n == Len(bs)
    IN  <<>> \o [k \in 1..(4 * ((n + 2) \div 3)) |->
            LET g  == (k - 1) \div 4
                r  == (k - 1) % 4
                b1 == ByteAt(bs, 3 * g + 1)
                b2 == ByteAt(bs, 3 * g + 2)
                b3 == ByteAt(bs, 3 * g + 3)
            IN  IF r = 0 THEN B64Char(b1 \div 4)
                ELSE IF r = 1 THEN B64Char((b1 % 4) * 16 + b2 \div 16)
                ELSE IF r = 2
                     THEN IF 3 * g + 2 > n THEN B64Pad ELSE B64Char((b2 % 16) * 4 + b3 \div 64)
                ELSE IF 3 * g + 3 > n THEN B64Pad ELSE B64Char(b3 % 64)]

IsB64Char(ch) ==
    \/ ch >= 65 /\ ch <= 90
    \/ ch >= 97 /\ ch <= 122
    \/ ch >= 48 /\ ch <= 57
    \/ ch = 43
    \/ ch = 47

B64Value(ch) ==
    IF ch >= 65 /\ ch <= 90 THEN ch - 65
    ELSE IF ch >= 97 /\ ch <= 122 THEN ch - 71
    ELSE IF ch >= 48 /\ ch <= 57 THEN ch + 4
    ELSE IF ch = 43 THEN 62
    ELSE 63

\* number of alphabet characters among the first i characters
AlphaCount(data, i) == Len(SelectSeq(SubSeq(data, 1, i), IsB64Char))

\* binascii.a2b_base64 in its default (non-strict) mode.  Characters outside
\* the alphabet are skipped.  With quad_pos alphabet characters of the current
\* quad read, a "=" counts as padding when quad_pos >= 2, and the scan ends at
\* the "=" that makes quad_pos + pads reach 4: the first one when quad_pos = 3,
\* the second one since the last alphabet character when quad_pos = 2.
A2bStops(data, i) ==
    /\ data[i] = B64Pad
    /\ LET q == AlphaCount(data, i - 1) % 4
       IN  \/ q = 3
           \/ /\ q = 2
              /\ \E j \in 1..(i - 1) :
                     data[j] = B64Pad /\ AlphaCount(data, j - 1) = AlphaCount(data, i - 1)

\* the sextets that are read: the alphabet characters before the stop
A2bSextets(data) ==
    Bind({i \in 1..Len(data) : data[i] = B64Pad /\ A2bStops(data, i)}, LAMBDA stops :
        [stopped |-> stops # {},
         six |-> SelectSeq(
                     SubSeq(data, 1,
                            IF stops = {} THEN Len(data)
                            ELSE (CHOOSE i \in stops : \A j \in stops : i <= j) - 1),
                     IsB64Char)])

\* a quad left open at the end of the input is an error
A2bBase64(data) ==
    Bind(A2bSextets(data), LAMBDA s :
        LET n    == Len(s.six)
            v(i) == B64Value(s.six[i])
        IN  IF ~s.stopped /\ n % 4 # 0 THEN Raise("binascii.Error")
            ELSE [kind |-> "bytes",
                  val |-> <<>> \o
                      [k \in 1..(3 * (n \div 4) + (IF n % 4 = 0 THEN 0 ELSE (n % 4) - 1)) |->
                          LET g == (k - 1) \div 3
                              r == (k - 1) % 3
                          IN  IF r = 0 THEN v(4 * g + 1) * 4 + v(4 * g + 2) \div 16
                              ELSE IF r = 1 THEN (v(4 * g + 2) % 16) * 16 + v(4 * g + 3) \div 4
                              ELSE (v(4 * g + 3) % 4) * 64 + v(4 * g + 4)]])

\* base64.b64decode(str): the text must be ASCII
B64Decode(data) ==
    IF \E i \in 1..Len(data) : data[i] >= 128
    THEN Raise("ValueError")
    ELSE A2bBase64(data)

\* base64.b64encode(data.encode()).decode()
Encode(data) ==
    Bind(StrEncode(data), LAMBDA b :
        IF b.kind = "raise" THEN b ELSE Text(B64Encode(b.val)))

\* base64.b64decode(data).decode()
Decode(data) ==
    Bind(B64Decode(data), LAMBDA b :
        IF b.kind = "raise" THEN b ELSE BytesDecode(b.val))

(***************************************************************************)
(* State                                                                   *)
(***************************************************************************)
VARIABLES
    queue,           \* MockNetwork.queue, head first
    session_active,  \* SessionLayer.session_active
    mac_address,     \* DataLinkLayer.mac_address
    source_ip,       \* NetworkLayer.source_ip
    pc,              \* where the caller is: "api", a line of __main__, "blocked", "crashed", "done"
    last,            \* what the most recent call did (arguments, result, printed lines, call chain)
    origin,          \* for each payload in the medium, in sending order: how it got there
    rx               \* the origin of the payload the most recent receive took

vars == <<queue, session_active, mac_address, source_ip, pc, last, origin, rx>>

\* NetworkLayer.destination_ip
destination_ip == S("192.168.1.100")

(***************************************************************************)
(* print_layer: one printed line, kept as (layer, message, data)           *)
(***************************************************************************)
print_layer(layer_name, message, data) == [layer |-> layer_name, msg |-> message, data |-> data]

(***************************************************************************)
(* The running call: the medium plus everything the call has done so far   *)
(***************************************************************************)
Begin(q) ==
    [queue |-> q, out |-> <<>>, calls |-> <<>>, tags |-> <<>>, stripped |-> <<>>,
     hops |-> <<>>, down |-> None, up |-> None, put |-> None, got |-> None, ret |-> None]

Enter(e, method) == [e EXCEPT !.calls = Append(@, method)]
Printed(e, line) == [e EXCEPT !.out = Append(@, line)]
\* one tag-stripping receive: what the stage got from below and what it returned
Hop(e, stage, data, result) ==
    [e EXCEPT !.hops = Append(@, [stage |-> stage, in |-> data, out |-> result])]
Blocked == [kind |-> "blocked", val |-> <<>>]

(***************************************************************************)
(* MockNetwork                                                             *)
(***************************************************************************)
\* changed: prints the payload but never puts it on the queue
MockNetwork_send_drop(e0, data) ==
    [Printed(Enter(e0, "MockNetwork.send"), print_layer("Physical Layer", "Sending data", data))
        EXCEPT !.ret = None]

MockNetwork_send(e0, data) ==
    LET e == Printed(Enter(e0, "MockNetwork.send"),
                     print_layer("Physical Layer", "Sending data", data))
    IN  [e EXCEPT !.queue = Append(@, data), !.put = Text(data), !.ret = None]

\* changed: takes the newest payload instead of the oldest
MockNetwork_receive_lifo(e0) ==
    Bind(Enter(e0, "MockNetwork.receive"), LAMBDA e :
        IF e.queue = <<>>
        THEN [e EXCEPT !.ret = Blocked]
        ELSE LET data == e.queue[Len(e.queue)]
             IN  [Printed(e, print_layer("Physical Layer", "Received data", data))
                     EXCEPT !.queue = SubSeq(@, 1, Len(@) - 1),
                            !.got = Text(data), !.ret = Text(data)])

\* queue.get() on an empty queue never returns
MockNetwork_receive(e0) ==
    Bind(Enter(e0, "MockNetwork.receive"), LAMBDA e :
        IF e.queue = <<>>
        THEN [e EXCEPT !.ret = Blocked]
        ELSE LET data == Head(e.queue)
             IN  [Printed(e, print_layer("Physical Layer", "Received data", data))
                     EXCEPT !.queue = Tail(@), !.got = Text(data), !.ret = Text(data)])

(***************************************************************************)
(* PhysicalLayer                                                           *)
(***************************************************************************)
PhysicalLayer_send(e, data) == MockNetwork_send(Enter(e, "PhysicalLayer.send"), data)

PhysicalLayer_receive(e) == MockNetwork_receive(Enter(e, "PhysicalLayer.receive"))

(***************************************************************************)
(* DataLinkLayer                                                           *)
(***************************************************************************)
HexDigits == S("0123456789ABCDEF")
Colon == Ord(":")

\* ':'.join(('%012X' % mac)[i:i+2] for i in range(0, 12, 2)); the node id is
\* given by its twelve base-16 digits, most significant first
get_mac_address(node) ==
    Flatten([i \in 1..6 |->
        (IF i = 1 THEN <<>> ELSE <<Colon>>)
            \o <<HexDigits[node[2 * i - 1] + 1], HexDigits[node[2 * i] + 1]>>])

\* changed: splits at the last separator (rsplit) instead of the first
Strip_last(data) ==
    IF Contains(data, Pipe)
    THEN SubSeq(data, 1 + (CHOOSE i \in 1..Len(data) :
                              data[i] = Pipe /\ \A j \in (i + 1)..Len(data) : data[j] # Pipe),
                Len(data))
    ELSE data

\* data.split("|", 1)[1] if "|" in data else data
Strip(data) == IF Contains(data, Pipe) THEN SplitRest(data) ELSE data
\* the tag that split removes, if any
StrippedTag(data) == IF Contains(data, Pipe) THEN <<SplitHead(data)>> ELSE <<>>

DataLinkLayer_send(e0, data) ==
    Bind(mac_address \o <<Pipe>> \o data, LAMBDA frame :
        PhysicalLayer_send(
            [Printed(Enter(e0, "DataLinkLayer.send"),
                     print_layer("Data Link Layer", "Framing data", frame))
                EXCEPT !.tags = Append(@, mac_address)],
            frame))

DataLinkLayer_receive(e0) ==
    Bind(PhysicalLayer_receive(Enter(e0, "DataLinkLayer.receive")), LAMBDA r :
        IF r.ret.kind # "text" THEN r
        ELSE [Hop(r, "DataLinkLayer", r.ret.val, Strip(r.ret.val))
                 EXCEPT !.ret = Text(Strip(r.ret.val)),
                        !.stripped = @ \o StrippedTag(r.ret.val)])

(***************************************************************************)
(* NetworkLayer                                                            *)
(***************************************************************************)
Greater == Ord(">")
AddressPair == source_ip \o <<Greater>> \o destination_ip

NetworkLayer_send(e0, data) ==
    Bind(AddressPair \o <<Pipe>> \o data, LAMBDA packet :
        DataLinkLayer_send(
            [Printed(Enter(e0, "NetworkLayer.send"),
                     print_layer("Network Layer", "Routing packet", packet))
                EXCEPT !.tags = Append(@, AddressPair)],
            packet))

NetworkLayer_receive(e0) ==
    Bind(DataLinkLayer_receive(Enter(e0, "NetworkLayer.receive")), LAMBDA r :
        IF r.ret.kind # "text" THEN r
        ELSE IF Contains(r.ret.val, Pipe)
             THEN [Hop(Printed(r, print_layer("Network Layer", "Packet info",
                                              SplitHead(r.ret.val))),
                       "NetworkLayer", r.ret.val, SplitRest(r.ret.val))
                      EXCEPT !.ret = Text(SplitRest(r.ret.val)),
                             !.stripped = Append(@, SplitHead(r.ret.val))]
             ELSE Hop(r, "NetworkLayer", r.ret.val, r.ret.val))

(***************************************************************************)
(* TransportLayer                                                          *)
(***************************************************************************)
SeqHeader == S("SEQ_HEADER")

TransportLayer_send(e0, data) ==
    Bind(SeqHeader \o <<Pipe>> \o data, LAMBDA segment :
        NetworkLayer_send(
            [Printed(Enter(e0, "TransportLayer.send"),
                     print_layer("Transport Layer", "Adding sequencing", segment))
                EXCEPT !.tags = Append(@, SeqHeader)],
            segment))

\* changed: hands the segment up with its header still on
TransportLayer_receive_keep(e0) ==
    Bind(NetworkLayer_receive(Enter(e0, "TransportLayer.receive")), LAMBDA r :
        IF r.ret.kind # "text" THEN r
        ELSE Hop(r, "TransportLayer", r.ret.val, r.ret.val))

TransportLayer_receive(e0) ==
    Bind(NetworkLayer_receive(Enter(e0, "TransportLayer.receive")), LAMBDA r :
        IF r.ret.kind # "text" THEN r
        ELSE [Hop(r, "TransportLayer", r.ret.val, Strip(r.ret.val))
                 EXCEPT !.ret = Text(Strip(r.ret.val)),
                        !.stripped = @ \o StrippedTag(r.ret.val)])

(***************************************************************************)
(* SessionLayer                                                            *)
(***************************************************************************)
SessionLayer_send(e0, data) ==
    Bind([Enter(e0, "SessionLayer.send") EXCEPT !.down = Text(data)], LAMBDA e :
        IF session_active THEN TransportLayer_send(e, data) ELSE [e EXCEPT !.ret = None])

\* changed: forwards without looking at the flag
SessionLayer_receive_ungated(e0) ==
    Bind(TransportLayer_receive(Enter(e0, "SessionLayer.receive")), LAMBDA r :
        [r EXCEPT !.up = r.ret])

SessionLayer_receive(e0) ==
    IF session_active
    THEN Bind(TransportLayer_receive(Enter(e0, "SessionLayer.receive")), LAMBDA r :
             [r EXCEPT !.up = r.ret])
    ELSE [Enter(e0, "SessionLayer.receive") EXCEPT !.ret = None, !.up = None]

(***************************************************************************)
(* PresentationLayer                                                       *)
(***************************************************************************)
Marker == S("CONFIRMATION|")

\* changed: forwards the text without encoding it
PresentationLayer_send_plain(e0, data) ==
    SessionLayer_send(
        Printed(Enter(e0, "PresentationLayer.send"),
                print_layer("Presentation Layer", "Encoding data", data)),
        data)

PresentationLayer_send(e0, data) ==
    Bind(Encode(data), LAMBDA encoded :
        IF encoded.kind = "raise"
        THEN [Enter(e0, "PresentationLayer.send") EXCEPT !.ret = encoded]
        ELSE SessionLayer_send(
                 Printed(Enter(e0, "PresentationLayer.send"),
                         print_layer("Presentation Layer", "Encoding data", encoded.val)),
                 encoded.val))

\* changed: no marker branch, every payload goes through the decode step
PresentationLayer_receive_always_decodes(e0) ==
    Bind(SessionLayer_receive(Enter(e0, "PresentationLayer.receive")), LAMBDA r :
        IF r.ret.kind = "blocked" THEN r
        ELSE IF r.ret.kind = "None" THEN [r EXCEPT !.ret = Raise("AttributeError")]
        ELSE Bind(Decode(r.ret.val), LAMBDA decoded :
                 IF decoded.kind = "raise" THEN [r EXCEPT !.ret = decoded]
                 ELSE [Printed(r, print_layer("Presentation Layer", "Decoded data", decoded.val))
                          EXCEPT !.ret = decoded]))

\* None has no startswith: the call on an inactive session's result raises
PresentationLayer_receive(e0) ==
    Bind(SessionLayer_receive(Enter(e0, "PresentationLayer.receive")), LAMBDA r :
        IF r.ret.kind = "blocked" THEN r
        ELSE IF r.ret.kind = "None" THEN [r EXCEPT !.ret = Raise("AttributeError")]
        ELSE IF StartsWith(r.ret.val, Marker) THEN [r EXCEPT !.ret = Text(SplitRest(r.ret.val))]
        ELSE Bind(Decode(r.ret.val), LAMBDA decoded :
                 IF decoded.kind = "raise" THEN [r EXCEPT !.ret = decoded]
                 ELSE [Printed(r, print_layer("Presentation Layer", "Decoded data", decoded.val))
                          EXCEPT !.ret = decoded]))

(***************************************************************************)
(* json.dumps(order, indent=4) for an order of three texts and an integer  *)
(***************************************************************************)
Digits == S("0123456789")

RECURSIVE NatStr(_)
NatStr(n) == IF n < 10 THEN <<Digits[n + 1]>> ELSE NatStr(n \div 10) \o <<Digits[(n % 10) + 1]>>

Minus == Ord("-")

IntStr(n) == IF n < 0 THEN <<Minus>> \o NatStr(-n) ELSE NatStr(n)

LowerHex == S("0123456789abcdef")
Quote == Ord("\"")
Backslash == Ord("\\")
LetterU == Ord("u")

\* \uXXXX for a 16-bit unit
Hex4(u) ==
    <<Backslash, LetterU, LowerHex[(u \div 4096) + 1], LowerHex[((u \div 256) % 16) + 1],
      LowerHex[((u \div 16) % 16) + 1], LowerHex[(u % 16) + 1]>>

\* ensure_ascii escaping of one character
JsonChar(cp) ==
    IF cp = Quote THEN <<Backslash, Quote>>
    ELSE IF cp = Backslash THEN <<Backslash, Backslash>>
    ELSE IF cp = 10 THEN <<Backslash, 110>>
    ELSE IF cp = 13 THEN <<Backslash, 114>>
    ELSE IF cp = 9 THEN <<Backslash, 116>>
    ELSE IF cp = 8 THEN <<Backslash, 98>>
    ELSE IF cp = 12 THEN <<Backslash, 102>>
    ELSE IF cp < 32 \/ (cp >= 128 /\ cp < 65536) THEN Hex4(cp)
    ELSE IF cp >= 65536
         THEN Hex4(55296 + ((cp - 65536) \div 1024)) \o Hex4(56320 + ((cp - 65536) % 1024))
    ELSE <<cp>>

JsonString(t) ==
    IF \A i \in 1..Len(t) : JsonChar(t[i]) = <<t[i]>>
    THEN <<Quote>> \o t \o <<Quote>>  \* nothing to escape
    ELSE <<Quote>> \o Flatten([i \in 1..Len(t) |-> JsonChar(t[i])]) \o <<Quote>>

\* the layout indent=4 gives a four-key object
JsonKeyCustomer == S("{\n    \"customer\": ")
JsonKeyFood == S(",\n    \"food\": ")
JsonKeyQuantity == S(",\n    \"quantity\": ")
JsonKeyAddress == S(",\n    \"address\": ")
JsonClose == S("\n}")

JsonDumps(order) ==
    JsonKeyCustomer \o JsonString(order.customer)
        \o JsonKeyFood \o JsonString(order.food)
        \o JsonKeyQuantity \o IntStr(order.quantity)
        \o JsonKeyAddress \o JsonString(order.address)
        \o JsonClose

(***************************************************************************)
(* ApplicationLayer                                                        *)
(***************************************************************************)
ApplicationLayer_place_order(e0, o) ==
    Bind(JsonDumps(o), LAMBDA order :
        PresentationLayer_send(
            Printed(Enter(e0, "ApplicationLayer.place_order"),
                    print_layer("Application Layer", "Placing order", order)),
            order))

\* `if confirmation:` is false for None and for the empty text
ApplicationLayer_receive_confirmation(e0) ==
    Bind(PresentationLayer_receive(Enter(e0, "ApplicationLayer.receive_confirmation")), LAMBDA r :
        IF r.ret.kind # "text" THEN r
        ELSE IF r.ret.val # <<>>
             THEN [Printed(r, print_layer("Application Layer", "Order confirmed", r.ret.val))
                      EXCEPT !.ret = None]
             ELSE [r EXCEPT !.ret = None])

(***************************************************************************)
(* The host: what uuid.getnode() and the socket lookup can give            *)
(***************************************************************************)
Nodes ==
    { <<0, 2, 15, 12, 0, 0, 0, 0, 0, 0, 0, 1>>,
      <<0, 0, 1, 10, 2, 11, 3, 12, 4, 13, 5, 14>>,
      <<15, 15, 15, 15, 15, 15, 15, 15, 15, 15, 15, 15>> }

LocalIps == { S("192.0.2.2"), S("10.0.0.5"), S("172.16.254.1") }

Loopback == S("127.0.0.1")

\* NetworkLayer.get_my_ip: the socket's own address, or the loopback fallback
get_my_ip == LocalIps \cup {Loopback}

\* the hosts the client runs are explored on
ClientNodes == { <<0, 2, 15, 12, 0, 0, 0, 0, 0, 0, 0, 1>> }
ClientIps == { S("192.0.2.2"), Loopback }

(***************************************************************************)
(* Inputs                                                                  *)
(***************************************************************************)
MainOrder ==
    [customer |-> S("Al Glenrey"), food |-> S("Pizza"), quantity |-> 2,
     address |-> S("University of the Philippines Cebu, Lahug, Cebu City")]

Orders == { MainOrder }

\* line 205: base64.b64encode("CONFIRMATION|Order received, preparing Pizza!".encode()).decode()
encoded_confirmation == Encode(S("CONFIRMATION|Order received, preparing Pizza!")).val

ServerMacAndIp == S("SERVER_MAC|") \o destination_ip \o S(">")
SeqHeaderField == S("|SEQ_HEADER|")

\* line 206: the pre-tagged confirmation frame
MainInjected == ServerMacAndIp \o source_ip \o SeqHeaderField \o encoded_confirmation

\* payloads put straight onto the medium: the frame of line 206, one with no
\* separator, one with two
FramePing == S("ping")
FrameTwoTags == S("a|b|c")
RawFrames == { MainInjected, FramePing, FrameTwoTags }

\* payloads handed to the session stage: a marked one with separators of its own
SessionInputs == { S("CONFIRMATION|a|b") }

\* texts for the presentation stage: the empty text, and texts whose encoded
\* length leaves 1, 2 and 0 bytes over a multiple of 3, with and without the
\* marker, the separator and a non-ASCII character
AccentedText == <<233, Pipe, 97>>
Texts == { <<>>, AccentedText, S("hi"), S("CONFIRMATION|ok") }

(***************************************************************************)
(* One call: the program state after it, and the record of what it did     *)
(***************************************************************************)
NoRx == [entry |-> "", arg |-> None, frame |-> <<>>, down |-> None, tags |-> <<>>]

NoCall ==
    [op |-> "", arg |-> None, ret |-> None, out |-> <<>>, calls |-> <<>>,
     tags |-> <<>>, stripped |-> <<>>, hops |-> <<>>, down |-> None, up |-> None,
     put |-> None, got |-> None, queue_before |-> <<>>, active_before |-> FALSE]

\* an uncaught exception ends __main__; a client of the stack sees it raised
Finish(op, arg, effect, nextpc) ==
    \E e \in {effect} :
        /\ queue' = e.queue
        /\ last' = [op |-> op, arg |-> arg, ret |-> e.ret, out |-> e.out, calls |-> e.calls,
                    tags |-> e.tags, stripped |-> e.stripped, hops |-> e.hops,
                    down |-> e.down, up |-> e.up, put |-> e.put, got |-> e.got,
                    queue_before |-> queue, active_before |-> session_active]
        /\ origin' = IF e.put.kind = "text"
                     THEN Append(origin, [entry |-> op, arg |-> arg, frame |-> e.put.val,
                                          down |-> e.down, tags |-> e.tags])
                     ELSE IF e.got.kind = "text" /\ origin # <<>> THEN Tail(origin)
                     ELSE origin
        /\ rx' = IF e.got.kind = "text" /\ origin # <<>> THEN Head(origin) ELSE NoRx
        /\ pc' = IF e.ret.kind = "blocked" THEN "blocked"
                 ELSE IF e.ret.kind = "raise" /\ pc # "api" THEN "crashed"
                 ELSE nextpc

\* a constructor: it prints its "Initialized" line
Construct(class, layer_name, nextpc) ==
    Finish(class, None,
           Printed(Enter(Begin(queue), class), print_layer(layer_name, "Initialized", <<>>)),
           nextpc)

(***************************************************************************)
(* The calls __main__ makes, also open to any client of the stack          *)
(***************************************************************************)
\* changed: flips the flag instead of setting it
start_session_toggle(nextpc) ==
    /\ session_active' = ~session_active
    /\ Finish("SessionLayer.start_session", None,
              Printed(Enter(Begin(queue), "SessionLayer.start_session"),
                      print_layer("Session Layer", "Session started", <<>>)), nextpc)
    /\ UNCHANGED <<mac_address, source_ip>>

start_session(nextpc) ==
    /\ session_active' = TRUE
    /\ Finish("SessionLayer.start_session", None,
              Printed(Enter(Begin(queue), "SessionLayer.start_session"),
                      print_layer("Session Layer", "Session started", <<>>)), nextpc)
    /\ UNCHANGED <<mac_address, source_ip>>

network_send(d, nextpc) ==
    /\ Finish("MockNetwork.send", Text(d), MockNetwork_send(Begin(queue), d), nextpc)
    /\ UNCHANGED <<session_active, mac_address, source_ip>>

place_order(o, nextpc) ==
    /\ Finish("ApplicationLayer.place_order", [kind |-> "order", val |-> o],
              ApplicationLayer_place_order(Begin(queue), o), nextpc)
    /\ UNCHANGED <<session_active, mac_address, source_ip>>

receive_confirmation(nextpc) ==
    /\ Finish("ApplicationLayer.receive_confirmation", None,
              ApplicationLayer_receive_confirmation(Begin(queue)), nextpc)
    /\ UNCHANGED <<session_active, mac_address, source_ip>>

(***************************************************************************)
(* A client calling the stack in any order                                 *)
(***************************************************************************)
\* the explored runs keep at most MaxQueue payloads in the medium
Room == Len(queue) < MaxQueue

StartSession == pc = "api" /\ start_session("api")

MockNetworkSend ==
    /\ pc = "api" /\ Room
    /\ \E d \in RawFrames : network_send(d, "api")

MockNetworkReceive ==
    /\ pc = "api"
    /\ Finish("MockNetwork.receive", None, MockNetwork_receive(Begin(queue)), "api")
    /\ UNCHANGED <<session_active, mac_address, source_ip>>

PhysicalReceive ==
    /\ pc = "api"
    /\ Finish("PhysicalLayer.receive", None, PhysicalLayer_receive(Begin(queue)), "api")
    /\ UNCHANGED <<session_active, mac_address, source_ip>>

DataLinkReceive ==
    /\ pc = "api"
    /\ Finish("DataLinkLayer.receive", None, DataLinkLayer_receive(Begin(queue)), "api")
    /\ UNCHANGED <<session_active, mac_address, source_ip>>

NetworkLayerReceive ==
    /\ pc = "api"
    /\ Finish("NetworkLayer.receive", None, NetworkLayer_receive(Begin(queue)), "api")
    /\ UNCHANGED <<session_active, mac_address, source_ip>>

TransportReceive ==
    /\ pc = "api"
    /\ Finish("TransportLayer.receive", None, TransportLayer_receive(Begin(queue)), "api")
    /\ UNCHANGED <<session_active, mac_address, source_ip>>

SessionSend ==
    /\ pc = "api" /\ (Room \/ ~session_active)
    /\ \E d \in SessionInputs :
           Finish("SessionLayer.send", Text(d), SessionLayer_send(Begin(queue), d), "api")
    /\ UNCHANGED <<session_active, mac_address, source_ip>>

SessionReceive ==
    /\ pc = "api"
    /\ Finish("SessionLayer.receive", None, SessionLayer_receive(Begin(queue)), "api")
    /\ UNCHANGED <<session_active, mac_address, source_ip>>

PresentationSend ==
    /\ pc = "api" /\ (Room \/ ~session_active)
    /\ \E d \in Texts :
           Finish("PresentationLayer.send", Text(d), PresentationLayer_send(Begin(queue), d), "api")
    /\ UNCHANGED <<session_active, mac_address, source_ip>>

PresentationReceive ==
    /\ pc = "api"
    /\ Finish("PresentationLayer.receive", None, PresentationLayer_receive(Begin(queue)), "api")
    /\ UNCHANGED <<session_active, mac_address, source_ip>>

PlaceOrder ==
    /\ pc = "api" /\ (Room \/ ~session_active)
    /\ \E o \in Orders : place_order(o, "api")

ReceiveConfirmation == pc = "api" /\ receive_confirmation("api")

\* the stack as lines 191-198 build it, on one of the client's hosts
Init ==
    /\ queue = <<>>
    /\ session_active = FALSE
    /\ mac_address \in {get_mac_address(n) : n \in ClientNodes}
    /\ source_ip \in ClientIps
    /\ pc = "api"
    /\ last = NoCall
    /\ origin = <<>>
    /\ rx = NoRx

Next ==
    \/ StartSession
    \/ MockNetworkSend
    \/ MockNetworkReceive
    \/ PhysicalReceive
    \/ DataLinkReceive
    \/ NetworkLayerReceive
    \/ TransportReceive
    \/ SessionSend
    \/ SessionReceive
    \/ PresentationSend
    \/ PresentationReceive
    \/ PlaceOrder
    \/ ReceiveConfirmation

Spec == Init /\ [][Next]_vars

(***************************************************************************)
(* __main__, line by line                                                  *)
(***************************************************************************)
NewMockNetwork ==
    /\ pc = "L191"
    /\ Construct("MockNetwork", "", "L192")
    /\ UNCHANGED <<session_active, mac_address, source_ip>>

NewPhysicalLayer ==
    /\ pc = "L192"
    /\ Construct("PhysicalLayer", "Physical Layer", "L193")
    /\ UNCHANGED <<session_active, mac_address, source_ip>>

NewDataLinkLayer ==
    /\ pc = "L193"
    /\ mac_address' \in {get_mac_address(n) : n \in Nodes}
    /\ Construct("DataLinkLayer", "Data Link Layer", "L194")
    /\ UNCHANGED <<session_active, source_ip>>

NewNetworkLayer ==
    /\ pc = "L194"
    /\ source_ip' \in get_my_ip
    /\ Construct("NetworkLayer", "Network Layer", "L195")
    /\ UNCHANGED <<session_active, mac_address>>

NewTransportLayer ==
    /\ pc = "L195"
    /\ Construct("TransportLayer", "Transport Layer", "L196")
    /\ UNCHANGED <<session_active, mac_address, source_ip>>

NewSessionLayer ==
    /\ pc = "L196"
    /\ session_active' = FALSE
    /\ Construct("SessionLayer", "Session Layer", "L197")
    /\ UNCHANGED <<mac_address, source_ip>>

NewPresentationLayer ==
    /\ pc = "L197"
    /\ Construct("PresentationLayer", "Presentation Layer", "L198")
    /\ UNCHANGED <<session_active, mac_address, source_ip>>

NewApplicationLayer ==
    /\ pc = "L198"
    /\ Construct("ApplicationLayer", "Application Layer", "L200")
    /\ UNCHANGED <<session_active, mac_address, source_ip>>

MainStartSession == pc = "L200" /\ start_session("L201")

MainPlaceOrder == pc = "L201" /\ place_order(MainOrder, "L202")

\* time.sleep(1)
MainSleep ==
    /\ pc = "L202"
    /\ Finish("time.sleep", None, Enter(Begin(queue), "time.sleep"), "L205")
    /\ UNCHANGED <<session_active, mac_address, source_ip>>

MainInject == pc = "L205" /\ network_send(MainInjected, "L208")

MainReceiveConfirmation == pc = "L208" /\ receive_confirmation("L210")

MainComplete ==
    /\ pc = "L210"
    /\ Finish("print", None,
              Printed(Enter(Begin(queue), "print"), print_layer("", "Simulation Complete", <<>>)),
              "done")
    /\ UNCHANGED <<session_active, mac_address, source_ip>>

ScenarioInit ==
    /\ queue = <<>>
    /\ session_active = FALSE
    /\ mac_address = <<>>
    /\ source_ip = <<>>
    /\ pc = "L191"
    /\ last = NoCall
    /\ origin = <<>>
    /\ rx = NoRx

ScenarioNext ==
    \/ NewMockNetwork
    \/ NewPhysicalLayer
    \/ NewDataLinkLayer
    \/ NewNetworkLayer
    \/ NewTransportLayer
    \/ NewSessionLayer
    \/ NewPresentationLayer
    \/ NewApplicationLayer
    \/ MainStartSession
    \/ MainPlaceOrder
    \/ MainSleep
    \/ MainInject
    \/ MainReceiveConfirmation
    \/ MainComplete

\* one thread runs the script: the interpreter always executes the next statement
ScenarioSpec == ScenarioInit /\ [][ScenarioNext]_vars /\ WF_vars(ScenarioNext)

(***************************************************************************)
(* Properties                                                              *)
(***************************************************************************)
\* the most recent call went through method m
InCalls(m) == \E i \in 1..Len(last.calls) : last.calls[i] = m

\* the data of the lines the most recent call printed for (layer, message)
Shown(layer_name, message) ==
    LET lines == SelectSeq(last.out, LAMBDA l : l.layer = layer_name /\ l.msg = message)
    IN  [i \in 1..Len(lines) |-> lines[i].data]

LowerLayers == {"Transport Layer", "Network Layer", "Data Link Layer", "Physical Layer"}
NoLowerOutput == \A i \in 1..Len(last.out) : last.out[i].layer \notin LowerLayers

StackSends == {"SessionLayer.send", "PresentationLayer.send", "ApplicationLayer.place_order"}
StrippingReceives == {"DataLinkLayer.receive", "NetworkLayer.receive", "TransportLayer.receive"}

PizzaMessage == S("Order received, preparing Pizza!")

\* C1: when receive_confirmation of the fixed scenario has returned (line 208
\* done), the one message it displayed is "Order received, preparing Pizza!".
C1_DisplaysConfirmation ==
    pc = "L210" => Shown("Application Layer", "Order confirmed") = <<PizzaMessage>>

\* C2: the medium is first-in-first-out: it always holds the payloads sent
\* and not yet received, in sending order; a send appends at the tail, and a
\* receive returns and removes the head, which is the oldest payload sent.
C2_Fifo ==
    /\ Len(queue) = Len(origin)
    /\ \A i \in 1..Len(queue) : i <= Len(origin) => queue[i] = origin[i].frame
    /\ last.put.kind = "text" => queue = Append(last.queue_before, last.put.val)
    /\ last.got.kind = "text" =>
           /\ last.queue_before # <<>>
           /\ last.got.val = Head(last.queue_before)
           /\ last.got.val = rx.frame
           /\ queue = Tail(last.queue_before)

\* a receive took the first of two different payloads that were waiting
C2_Witness ==
    /\ last.got.kind = "text"
    /\ Len(last.queue_before) >= 2
    /\ last.queue_before[1] # last.queue_before[2]
    /\ last.got.val = last.queue_before[1]

\* C3: a SessionLayer.send or SessionLayer.receive made while the flag is
\* false reaches no transport call, leaves the medium as it was, prints
\* nothing and returns None; made while the flag is true it is forwarded to
\* the transport layer.
C3_SessionGating ==
    /\ InCalls("SessionLayer.send") =>
           IF last.active_before
           THEN InCalls("TransportLayer.send") /\ last.put.kind = "text"
           ELSE /\ ~InCalls("TransportLayer.send")
                /\ queue = last.queue_before
                /\ NoLowerOutput
                /\ last.op = "SessionLayer.send" => last.out = <<>> /\ last.ret = None
    /\ InCalls("SessionLayer.receive") =>
           IF last.active_before
           THEN InCalls("TransportLayer.receive")
           ELSE /\ ~InCalls("TransportLayer.receive")
                /\ queue = last.queue_before
                /\ NoLowerOutput
                /\ last.up = None
                /\ last.op = "SessionLayer.receive" => last.out = <<>> /\ last.ret = None

\* a receive on the inactive session while a payload was waiting
C3_Witness ==
    /\ last.op = "SessionLayer.receive"
    /\ ~last.active_before
    /\ queue # <<>>

\* C4: when a receive through the session stage takes a payload that was sent
\* through the session stage, the tags added on send were SEQ_HEADER, the
\* address pair and the MAC in that order, the tags stripped on receive are
\* the same tags in reverse order, and the session stage returns the payload
\* it was handed on send.
C4_TagSymmetry ==
    (/\ InCalls("SessionLayer.receive")
     /\ last.got.kind = "text"
     /\ rx.entry \in StackSends)
        => /\ rx.tags = <<SeqHeader, AddressPair, mac_address>>
           /\ last.stripped = Reverse(rx.tags)
           /\ Len(last.stripped) = Len(rx.tags)
           /\ last.up = rx.down

\* the payload that made the round trip itself contains separators
C4_Witness ==
    /\ InCalls("SessionLayer.receive")
    /\ last.got.kind = "text"
    /\ rx.entry = "SessionLayer.send"
    /\ Contains(rx.down.val, Pipe)

\* C5: PresentationLayer.receive on an active session, taking the payload
\* that PresentationLayer.send(x) put on the medium, returns x, for every x
\* that does not begin with "CONFIRMATION|".
C5_RoundTrip ==
    (/\ last.op = "PresentationLayer.receive"
     /\ last.active_before
     /\ last.got.kind = "text"
     /\ rx.entry = "PresentationLayer.send"
     /\ ~StartsWith(rx.arg.val, Marker))
        => last.ret = Text(rx.arg.val)

\* the round trip of a non-ASCII text with a separator, sent to an empty medium
C5_Witness ==
    /\ last.op = "PresentationLayer.receive"
    /\ last.got.kind = "text"
    /\ Len(last.queue_before) = 1
    /\ rx.entry = "PresentationLayer.send"
    /\ rx.arg.val = AccentedText

\* the text after the marker
AfterMarker(data) == SubSeq(data, Len(Marker) + 1, Len(data))

\* C6 as stated: a payload that begins with "CONFIRMATION|" is returned
\* without the marker and without the decode step; every other payload
\* comes back decoded.
C6_MarkerElseDecoded ==
    (last.op = "PresentationLayer.receive" /\ last.up.kind = "text") =>
        IF StartsWith(last.up.val, Marker)
        THEN /\ last.ret = Text(AfterMarker(last.up.val))
             /\ Shown("Presentation Layer", "Decoded data") = <<>>
        ELSE /\ last.ret.kind = "text"
             /\ last.ret = Decode(last.up.val)

\* C6 amended: a payload that begins with "CONFIRMATION|" is returned without
\* the marker and without the decode step; every other payload goes through
\* the decode step, which returns the decoded text when the payload is
\* base64 of UTF-8 text and raises otherwise.
C6_MarkerElseDecodeStep ==
    (last.op = "PresentationLayer.receive" /\ last.up.kind = "text") =>
        IF StartsWith(last.up.val, Marker)
        THEN /\ last.ret = Text(AfterMarker(last.up.val))
             /\ Shown("Presentation Layer", "Decoded data") = <<>>
        ELSE IF Decode(last.up.val).kind = "text"
             THEN /\ last.ret = Decode(last.up.val)
                  /\ Shown("Presentation Layer", "Decoded data") = <<last.ret.val>>
             ELSE /\ last.ret.kind = "raise"
                  /\ Shown("Presentation Layer", "Decoded data") = <<>>

\* a marked payload whose rest has separators of its own
C6_Witness ==
    /\ last.op = "PresentationLayer.receive"
    /\ last.up.kind = "text"
    /\ StartsWith(last.up.val, Marker)
    /\ Contains(AfterMarker(last.up.val), Pipe)
    /\ last.ret.kind = "text"

\* C7: each of the data-link, network and transport receives returns the text
\* after the first "|" of what it got from below, or all of it when it has no
\* "|"; the three are chained, and none of them raises.
C7_StripFirstTag ==
    /\ \A i \in 1..Len(last.hops) :
           LET h == last.hops[i]
           IN  IF Contains(h.in, Pipe)
               THEN \E k \in 1..Len(h.in) :
                        /\ h.in[k] = Pipe
                        /\ \A j \in 1..(k - 1) : h.in[j] # Pipe
                        /\ h.out = SubSeq(h.in, k + 1, Len(h.in))
               ELSE h.out = h.in
    /\ last.op \in StrippingReceives =>
           /\ last.ret.kind # "raise"
           /\ last.got.kind = "text" =>
                  /\ last.hops # <<>>
                  /\ last.hops[1].in = last.got.val
                  /\ \A i \in 2..Len(last.hops) : last.hops[i].in = last.hops[i - 1].out
                  /\ last.ret = Text(last.hops[Len(last.hops)].out)

\* the transport receive of "a|b|c": two separators, then one, then none
C7_Witness ==
    /\ last.op = "TransportLayer.receive"
    /\ last.got = Text(FrameTwoTags)
    /\ Len(last.hops) = 3
    /\ ~Contains(last.hops[3].in, Pipe)

\* C8: the flag is false after construction, is true after every
\* start_session, and no call makes it false again.
C8_FlagOnlyRises ==
    /\ ~session_active
    /\ [][/\ session_active => session_active'
          /\ last'.op = "SessionLayer.start_session" => session_active']_vars

\* a receive made after the session was started left the flag set
C8_Witness ==
    /\ session_active
    /\ last.active_before
    /\ last.op = "SessionLayer.receive"

\* C9: receive_confirmation on a session that was never started raises
\* nothing, displays no confirmation and leaves the medium as it was.
C9_InactiveReceiveIsQuiet ==
    (last.op = "ApplicationLayer.receive_confirmation" /\ ~last.active_before) =>
        /\ last.ret.kind # "raise"
        /\ Shown("Application Layer", "Order confirmed") = <<>>
        /\ queue = last.queue_before

\* C10: in the fixed scenario every MockNetwork.receive finds a payload
\* waiting, the script never blocks, and it reaches its last line.
C10_ScenarioTerminates ==
    /\ [](/\ pc # "blocked"
          /\ InCalls("MockNetwork.receive") => last.queue_before # <<>>)
    /\ <>(pc = "done")

\* the script is past line 208, whose receive found both sends waiting
C10_Witness ==
    /\ pc = "L210"
    /\ InCalls("MockNetwork.receive")
    /\ Len(last.queue_before) = 2

=============================================================================
